---- MODULE Spec2Model ----
(***************************************************************************)
(* Sierra - Shared: the error catalog (error.hpp) and the discriminated    *)
(* union Result<T> (result.hpp), instantiated with an owned payload T that *)
(* counts its constructions and destructions; Status (status.hpp), the     *)
(* constraints on T (utils/memory.hpp), File, FileRead, openFile and       *)
(* makeFile (fsys/file.hpp), read<T> (utils/float.hpp), forEachPair        *)
(* (utils/consteval.hpp), Ch (utils/char.hpp) and the base constants       *)
(* (prims.hpp).                                                            *)
(* Spec is the machine of the Result<T> objects, SpecCalls the calls of    *)
(* the pure functions of the catalog, SpecFsys the calls that read the     *)
(* file system, SpecFileRead the machine of the FileRead objects and the   *)
(* streams they own, SpecUtils the calls of the pure functions of utils.   *)
(***************************************************************************)
EXTENDS Integers, Sequences, FiniteSets, TLC

(* ---------------------------- bounds ----------------------------------- *)
MaxContainers == 2
MaxValue == 2
MaxHandles == 2
MaxStreams == 2
MaxLen == 3

Containers == 1..MaxContainers
Values == 1..MaxValue

(* ------------------------ enum class Err : u8 -------------------------- *)
OK == 0
FAILURE == 1
NOT_IMPLEMENTED == 2
INDEX_OUT_OF_RANGE == 3
NO_SUCH_KEY == 4
INVALID_NUMBER == 5
FS_NO_SUCH_PATH == 6
FS_NO_SUCH_FILE == 7
FS_NO_SUCH_DIR == 8
FS_NO_SUCH_PARENT == 9
FS_FILE_ALREADY_EXISTS == 10
FS_DIR_ALREADY_EXISTS == 11
FS_FAILED_TO_OPEN == 12
JSON_BAD_CAST == 13
JSON_BAD_SUBTYPE == 14
JSON_BAD_ASSUMED == 15
JSON_BAD_TOKEN == 16
JSON_SYNTAX_EXP_VALUE == 17
JSON_SYNTAX_EXP_KEY == 18
JSON_SYNTAX_EXP_SEP == 19
JSON_SYNTAX_DBL_KEY == 20
JSON_SYNTAX_DBL_ROOT == 21
ERR_COUNT == 22

Err == OK..ERR_COUNT

\* the codes containers are constructed from: untagged, one tag, two tags
ErrInputs == {OK, INDEX_OUT_OF_RANGE, FS_NO_SUCH_FILE}

ErrType == {"NONE", "FSYS", "JSON"}
ErrSubtype == {"NONE", "ACCESS", "CAST", "PARSE", "SYNTAX"}

ErrInfo(m, t, s) == [msg |-> m, type |-> t, subtype |-> s]

lookupInfo(err) ==
    CASE err = OK -> ErrInfo("Ok", "NONE", "NONE")
      [] err = FAILURE -> ErrInfo("Failure", "NONE", "NONE")
      [] err = NOT_IMPLEMENTED -> ErrInfo("Not implemented", "NONE", "NONE")
      [] err = INDEX_OUT_OF_RANGE -> ErrInfo("Index out of range", "NONE", "ACCESS")
      [] err = NO_SUCH_KEY -> ErrInfo("No such key", "NONE", "ACCESS")
      [] err = INVALID_NUMBER -> ErrInfo("Invalid number", "NONE", "PARSE")
      [] err = FS_NO_SUCH_PATH -> ErrInfo("No such file or directory", "FSYS", "ACCESS")
      [] err = FS_NO_SUCH_FILE -> ErrInfo("No such file", "FSYS", "ACCESS")
      [] err = FS_NO_SUCH_DIR -> ErrInfo("No such directory", "FSYS", "ACCESS")
      [] err = FS_NO_SUCH_PARENT -> ErrInfo("No such parent directory", "FSYS", "ACCESS")
      [] err = FS_FILE_ALREADY_EXISTS -> ErrInfo("File already exists", "FSYS", "ACCESS")
      [] err = FS_DIR_ALREADY_EXISTS -> ErrInfo("Directory already exists", "FSYS", "ACCESS")
      [] err = FS_FAILED_TO_OPEN -> ErrInfo("Failed to open file", "FSYS", "ACCESS")
      [] err = JSON_BAD_CAST -> ErrInfo("Attempted to cast to wrong type", "JSON", "CAST")
      [] err = JSON_BAD_SUBTYPE -> ErrInfo("Attempted to cast to wrong subtype", "JSON", "CAST")
      [] err = JSON_BAD_ASSUMED -> ErrInfo("Assumed (implicit cast) to wrong type", "JSON", "CAST")
      [] err = JSON_BAD_TOKEN -> ErrInfo("Invalid token", "JSON", "PARSE")
      [] err = JSON_SYNTAX_EXP_VALUE -> ErrInfo("Was expecting value", "JSON", "SYNTAX")
      [] err = JSON_SYNTAX_EXP_KEY -> ErrInfo("Was expecting key", "JSON", "SYNTAX")
      [] err = JSON_SYNTAX_EXP_SEP -> ErrInfo("Was expecting separator", "JSON", "SYNTAX")
      [] err = JSON_SYNTAX_DBL_KEY -> ErrInfo("Key was specified twice", "JSON", "SYNTAX")
      [] err = JSON_SYNTAX_DBL_ROOT -> ErrInfo("Tree has multiple root objects", "JSON", "SYNTAX")
      [] err = ERR_COUNT -> ErrInfo("Unknown error", "NONE", "NONE")

lookupPrefixType(type) ==
    CASE type = "NONE" -> ""
      [] type = "FSYS" -> "[fsys]"
      [] type = "JSON" -> "[json]"

lookupPrefixSubtype(type) ==
    CASE type = "NONE" -> ""
      [] type = "ACCESS" -> "[access]"
      [] type = "CAST" -> "[cast]"
      [] type = "PARSE" -> "[parse]"
      [] type = "SYNTAX" -> "[syntax]"

lookupMsg_alwaysSpace(err) ==
    LET info == lookupInfo(err)
        msg1 == "" \o lookupPrefixType(info.type)
        msg2 == msg1 \o lookupPrefixSubtype(info.subtype)
        msg3 == msg2 \o " "
    IN  msg3 \o info.msg

lookupMsg_spaceBetweenTags(err) ==
    LET info == lookupInfo(err)
        msg1 == "" \o lookupPrefixType(info.type)
        msg2 == IF msg1 /= "" /\ lookupPrefixSubtype(info.subtype) /= ""
                THEN msg1 \o " " \o lookupPrefixSubtype(info.subtype)
                ELSE msg1 \o lookupPrefixSubtype(info.subtype)
        msg3 == IF msg2 /= "" THEN msg2 \o " " ELSE msg2
    IN  msg3 \o info.msg

lookupMsg(err) ==
    LET info == lookupInfo(err)
        msg1 == "" \o lookupPrefixType(info.type)
        msg2 == msg1 \o lookupPrefixSubtype(info.subtype)
        msg3 == IF msg2 /= "" THEN msg2 \o " " ELSE msg2
    IN  msg3 \o info.msg

(* the flat table and its lookup, the only lookup(Err) of the repository *)
ERR_TABLE == <<"Ok", "Failure">>

lookup(err) ==
    LET index == err
    IN  IF index < Len(ERR_TABLE) THEN ERR_TABLE[index + 1] ELSE "Unknown Error"

(* Err is an enumeration over u8: every value of u8 is a value of the type *)
U8 == 0..255

\* the classification the enumerators are declared under: the group
\* comments of enum class Err ("// fs : access" and so on); OK precedes
\* the first group and ERR_COUNT follows the last
DeclaredType(err) ==
    IF err \in FS_NO_SUCH_PATH..FS_FAILED_TO_OPEN THEN "FSYS"
    ELSE IF err \in JSON_BAD_CAST..JSON_SYNTAX_DBL_ROOT THEN "JSON"
    ELSE "NONE"

DeclaredSubtype(err) ==
    IF err \in INDEX_OUT_OF_RANGE..NO_SUCH_KEY THEN "ACCESS"
    ELSE IF err = INVALID_NUMBER THEN "PARSE"
    ELSE IF err \in FS_NO_SUCH_PATH..FS_FAILED_TO_OPEN THEN "ACCESS"
    ELSE IF err \in JSON_BAD_CAST..JSON_BAD_ASSUMED THEN "CAST"
    ELSE IF err = JSON_BAD_TOKEN THEN "PARSE"
    ELSE IF err \in JSON_SYNTAX_EXP_VALUE..JSON_SYNTAX_DBL_ROOT THEN "SYNTAX"
    ELSE "NONE"

\* what a call lookupInfo(err) can return. The switch has a case for each
\* enumerator and no default: for any other value control flows off the end
\* of the function, which is undefined; the caller then reads a record that
\* was never written: one of the catalog's records, or an empty one
lookupInfoOutcomes(err) ==
    IF err \in Err
    THEN {lookupInfo(err)}
    ELSE {lookupInfo(e) : e \in Err} \cup {ErrInfo("", "NONE", "NONE")}

\* ofType(Err, ErrType)
ofType(err, type) == lookupInfo(err).type = type

\* ofType(Err, ErrSubtype)
ofSubtype(err, subtype) == lookupInfo(err).subtype = subtype

ofTypeSubtype_either(err, type, subtype) ==
    LET info == lookupInfo(err)
    IN  info.type = type \/ info.subtype = subtype

\* ofType(Err, ErrType, ErrSubtype)
ofTypeSubtype(err, type, subtype) ==
    LET info == lookupInfo(err)
    IN  info.type = type /\ info.subtype = subtype

(* the build-time check of the flat table. ERR_TABLE is an array with one  *)
(* entry per code; its initialiser list may be shorter than the array, and *)
(* the entries without an initialiser are empty string views               *)
TableMsgs == {"", "Ok", "Failure"}

TableInits == UNION {[1..n -> TableMsgs] : n \in 0..Len(ERR_TABLE)}

TableFrom(inits) ==
    [i \in 1..Len(ERR_TABLE) |-> IF i <= Len(inits) THEN inits[i] ELSE ""]

\* static_assert(!ERR_TABLE.back().empty(), ...): TRUE when the build goes on
TableAccepted(table) == table[Len(table)] /= ""

(* ------------------------------ Status --------------------------------- *)
\* Status()
StatusDefault == [err_ |-> OK]

\* Status(Err err)
StatusFrom(err) == [err_ |-> err]

\* Status::ok()
Status_ok(s) == s.err_ = OK

Status_bad_testsEqual(s) == s.err_ = OK

\* Status::bad()
Status_bad(s) == s.err_ /= OK

\* Status::err()
Status_err(s) == s.err_

\* Status::msg()
Status_msg(s) == lookup(s.err_)

(* ------------------- the constraints on Result<T> ---------------------- *)
(* A type T is described by what the standard type traits say of it. A    *)
(* trait "nothrow X" holds only of a type with X, and a reference type is *)
(* destructible, movable and copyable, all without throwing.              *)
Types ==
    {t \in [nothrow_destructible : BOOLEAN,
            move_constructible : BOOLEAN,
            nothrow_move_constructible : BOOLEAN,
            copy_constructible : BOOLEAN,
            nothrow_copy_constructible : BOOLEAN,
            reference : BOOLEAN] :
        /\ t.nothrow_move_constructible => t.move_constructible
        /\ t.nothrow_copy_constructible => t.copy_constructible
        /\ t.reference => /\ t.nothrow_destructible
                          /\ t.nothrow_move_constructible
                          /\ t.nothrow_copy_constructible}

Moveable(t) == t.move_constructible

Copyable(t) == t.copy_constructible

SafeDestructible(t) == t.nothrow_destructible

SafeMoveable(t) == t.nothrow_move_constructible

SafeCopyable(t) == t.nothrow_copy_constructible

SafeMovePolicy(t) == Moveable(t) /\ SafeMoveable(t)

SafeCopyPolicy_requiresCopy(t) == Copyable(t) /\ SafeCopyable(t)

SafeCopyPolicy(t) == ~Copyable(t) \/ SafeCopyable(t)

ResultValue(t) == SafeDestructible(t) /\ SafeMovePolicy(t) /\ SafeCopyPolicy(t)

\* Result(const T&) and Result(const Result&): requires SafeCopyable<T>
ResultCopyAvailable(t) == SafeCopyable(t)

\* how Result<T> keeps its value: in the member value of union Data, the
\* only storage there is. A union with a member of reference type is
\* ill-formed, so Result<T> has no storage at all for a reference type
ResultStorage(t) ==
    IF ResultValue(t) /\ ~t.reference THEN "owned" ELSE "none"

(* --------------------- the payload type T ------------------------------ *)
(* T is an owned payload (a text value) that counts its constructions and  *)
(* destructions. An object of T is modelled by its content: one of Values, *)
(* or Empty once it has been moved from.                                   *)
Empty == 0

Contents == {Empty} \cup Values

\* T{ std::move(other) }: the new T takes over the content of the source
T_moveTo(t) == t

\* the source of T{ std::move(other) } afterwards
T_movedFrom(t) == Empty

\* T{ other }: the new T holds a duplicate, other keeps its content
T_copyTo(t) == t

\* t = v through a T&
T_assign(t, v) == v

(* ------------------------------ state ---------------------------------- *)
VARIABLES
    results,    \* the Result<T> objects: life, ok_ and the union data_
    ctors,      \* per container: T objects constructed in data_.value
    dtors,      \* per container: T objects destroyed in data_.value
    hist,       \* per container: where its value comes from
    last,       \* the last call: operation; object and argument of a
                \* constructor, destructor or write; for a call of a free
                \* function: operation, argument and returned value
    fs,         \* the file system: what each path names
    handles,    \* the FileRead objects outside any Result: life and stream_
    streams     \* the std::ifstream objects made by FileRead

vars == <<results, ctors, dtors, hist, last, fs, handles, streams>>

Unborn == [life |-> "unborn"]
Destroyed == [life |-> "destroyed"]

Live(c) == results[c].life = "live"

\* storage is reused: a new object is constructed in the lowest slot that
\* holds no live object
NextFree(c) ==
    /\ ~Live(c)
    /\ \A d \in Containers : d < c => Live(d)

(* --------------------------- class Result ------------------------------ *)
\* union Data { T value; Err err; }: one member is active, the storage of
\* the other one holds nothing that may be read
DataValue(t) == [active |-> "value", value |-> t, err |-> OK]

DataErr(e) == [active |-> "err", value |-> Empty, err |-> e]

\* mutant: the member is value-initialised, new (&data_.err) Err{}
ResultFromErr_dropsCode(e) ==
    [life |-> "live", ok_ |-> FALSE, data_ |-> DataErr(OK)]

\* mutant: the tag follows the code as in Status, ok_{ err == Err::OK }
ResultFromErr_okIsSuccess(e) ==
    [life |-> "live", ok_ |-> (e = OK), data_ |-> DataErr(e)]

\* Result(Err err) : ok_{ false } { new (&data_.err) Err{ err }; }
ResultFromErr(e) ==
    [life |-> "live", ok_ |-> FALSE, data_ |-> DataErr(e)]

\* mutant: the tag is initialised as in Result(Err), ok_{ false }
ResultFromMovedValue_tagFalse(t) ==
    [life |-> "live", ok_ |-> FALSE, data_ |-> DataValue(T_moveTo(t))]

\* Result(T &&value) : ok_{ true } { new (&data_.value) T{ std::move(value) }; }
ResultFromMovedValue(t) ==
    [life |-> "live", ok_ |-> TRUE, data_ |-> DataValue(T_moveTo(t))]

\* Result(const T &value) : ok_{ true } { new (&data_.value) T{ value }; }
ResultFromCopiedValue(t) ==
    [life |-> "live", ok_ |-> TRUE, data_ |-> DataValue(T_copyTo(t))]

\* mutant: the failure branch value-initialises the code, Err{}
ResultMoveNew_dropsCode(src) ==
    IF src.ok_
    THEN [life |-> "live", ok_ |-> src.ok_,
          data_ |-> DataValue(T_moveTo(src.data_.value))]
    ELSE [life |-> "live", ok_ |-> src.ok_, data_ |-> DataErr(OK)]

\* mutant: the success branch value-initialises the value, T{}
ResultMoveNew_dropsValue(src) ==
    IF src.ok_
    THEN [life |-> "live", ok_ |-> src.ok_, data_ |-> DataValue(Empty)]
    ELSE [life |-> "live", ok_ |-> src.ok_, data_ |-> DataErr(src.data_.err)]

\* Result(Result &&result) : ok_{ result.ok_ }, the object constructed
ResultMoveNew(src) ==
    IF src.ok_
    THEN [life |-> "live", ok_ |-> src.ok_,
          data_ |-> DataValue(T_moveTo(src.data_.value))]
    ELSE [life |-> "live", ok_ |-> src.ok_, data_ |-> DataErr(src.data_.err)]

\* mutant: the source is marked empty, result.ok_ = false
ResultMoveSrc_clearsTag(src) ==
    IF src.ok_
    THEN [src EXCEPT !.ok_ = FALSE, !.data_.value = T_movedFrom(src.data_.value)]
    ELSE src

\* Result(Result &&result), the source afterwards: tag kept, value moved from
ResultMoveSrc(src) ==
    IF src.ok_
    THEN [src EXCEPT !.data_.value = T_movedFrom(src.data_.value)]
    ELSE src

\* mutant: the failure branch value-initialises the code, Err{}
ResultCopyNew_dropsCode(src) ==
    IF src.ok_
    THEN [life |-> "live", ok_ |-> src.ok_,
          data_ |-> DataValue(T_copyTo(src.data_.value))]
    ELSE [life |-> "live", ok_ |-> src.ok_, data_ |-> DataErr(OK)]

\* Result(const Result &result) : ok_{ result.ok_ }, the object constructed
ResultCopyNew(src) ==
    IF src.ok_
    THEN [life |-> "live", ok_ |-> src.ok_,
          data_ |-> DataValue(T_copyTo(src.data_.value))]
    ELSE [life |-> "live", ok_ |-> src.ok_, data_ |-> DataErr(src.data_.err)]

\* Result(const Result &result), the source afterwards: it is const
ResultCopySrc(src) == src

\* the T objects a constructor from a Result constructs in data_.value
ResultConstructsValue(src) == IF src.ok_ THEN 1 ELSE 0

\* mutant: the destructor is defaulted, a union member is never destroyed
ResultDestroysValue_never(r) == 0

\* mutant: data_.value.~T() without the test of ok_
ResultDestroysValue_always(r) == 1

\* ~Result(): if (ok_) data_.value.~T(); the T objects it destroys
ResultDestroysValue(r) == IF r.ok_ THEN 1 ELSE 0

\* bool ok() const
ok(r) == r.ok_

\* mutant: return ok_;
bad_returnsOk(r) == r.ok_

\* bool bad() const
bad(r) == ~r.ok_

\* Err err() const { return data_.err; }; reading the inactive member of
\* the union is undefined
errOutcomes(r) ==
    IF r.data_.active = "err" THEN {r.data_.err} ELSE Err

\* T &value() & { return data_.value; }, the content of the T returned;
\* naming the inactive member of the union is undefined
valueOutcomes(r) ==
    IF r.data_.active = "value" THEN {r.data_.value} ELSE Contents

\* std::string_view msg() const { return lookup(data_.err); }
msgOutcomes(r) == {lookup(e) : e \in errOutcomes(r)}

(* ------------------------------ Init ----------------------------------- *)
\* from: the value the object, or the one its value was moved from, was
\* constructed from (Empty when there is none, after a write and once moved
\* from); moves: the move constructions since, counted up to two; copyOf:
\* the live object it was copy-constructed from (0 when there is none)
Hist(v, n, s) == [from |-> v, moves |-> n, copyOf |-> s]

NoHist == Hist(Empty, 0, 0)

Call(o, c, a) == [op |-> o, self |-> c, arg |-> a]

\* the paths of the file system, and what std::filesystem::status says a
\* path names: nothing, a regular file, a directory, or anything else
Paths == {"dir", "dir/a", "dir/b"}

FileKinds == {"not_found", "regular", "directory", "other"}

NoFs == [p \in Paths |-> "not_found"]

\* Path::parent(): path_.parent_path(), the text before the last separator
parent(path) == IF path = "dir" THEN "" ELSE "dir"

\* a path names something only inside an existing directory; "dir" lies in
\* the working directory, which exists
FsConsistent(f) ==
    \A p \in Paths :
        f[p] /= "not_found" /\ parent(p) /= "" => f[parent(p)] = "directory"

(* FileRead objects and the streams they own. stream_ is a unique_ptr: Null *)
(* or the one std::ifstream it owns. A stream is "open" or "failed" once    *)
(* made; when its unique_ptr deletes it, it is "closed" if close() was      *)
(* called on it before and "unmade" again if not; closes counts the calls   *)
(* of close() that closed it.                                               *)
Handles == 1..MaxHandles

Streams == 1..MaxStreams

Null == 0

NoHandle == [life |-> "none", stream_ |-> Null]

NoHandles == [h \in Handles |-> NoHandle]

NoStream == [state |-> "unmade", closes |-> 0]

NoStreams == [s \in Streams |-> NoStream]

Init ==
    /\ results = [c \in Containers |-> Unborn]
    /\ ctors = [c \in Containers |-> 0]
    /\ dtors = [c \in Containers |-> 0]
    /\ hist = [c \in Containers |-> NoHist]
    /\ last = Call("none", 0, 0)
    /\ fs = NoFs
    /\ handles = NoHandles
    /\ streams = NoStreams

(* ----------------------------- actions --------------------------------- *)
\* Result<T> r{ e };
ConstructErr(c, e) ==
    /\ NextFree(c)
    /\ results' = [results EXCEPT ![c] = ResultFromErr(e)]
    /\ ctors' = [ctors EXCEPT ![c] = 0]
    /\ dtors' = [dtors EXCEPT ![c] = 0]
    /\ hist' = [hist EXCEPT ![c] = NoHist]
    /\ last' = Call("Result(Err)", c, e)
    /\ UNCHANGED <<fs, handles, streams>>

\* Result<T> r{ std::move(t) }; t holds v
ConstructMoveValue(c, v) ==
    /\ NextFree(c)
    /\ results' = [results EXCEPT ![c] = ResultFromMovedValue(v)]
    /\ ctors' = [ctors EXCEPT ![c] = 1]
    /\ dtors' = [dtors EXCEPT ![c] = 0]
    /\ hist' = [hist EXCEPT ![c] = Hist(v, 0, 0)]
    /\ last' = Call("Result(T&&)", c, v)
    /\ UNCHANGED <<fs, handles, streams>>

\* Result<T> r{ t }; t holds v
ConstructCopyValue(c, v) ==
    /\ NextFree(c)
    /\ results' = [results EXCEPT ![c] = ResultFromCopiedValue(v)]
    /\ ctors' = [ctors EXCEPT ![c] = 1]
    /\ dtors' = [dtors EXCEPT ![c] = 0]
    /\ hist' = [hist EXCEPT ![c] = Hist(v, 0, 0)]
    /\ last' = Call("Result(const T&)", c, v)
    /\ UNCHANGED <<fs, handles, streams>>

\* Result<T> r{ std::move(s) };
MoveConstruct(c, s) ==
    /\ NextFree(c)
    /\ Live(s)
    /\ results' = [results EXCEPT ![c] = ResultMoveNew(results[s]),
                                  ![s] = ResultMoveSrc(results[s])]
    /\ ctors' = [ctors EXCEPT ![c] = ResultConstructsValue(results[s])]
    /\ dtors' = [dtors EXCEPT ![c] = 0]
    /\ hist' = [hist EXCEPT
                  ![c] = IF results[s].ok_
                         THEN Hist(hist[s].from,
                                   IF hist[s].moves < 2 THEN hist[s].moves + 1 ELSE 2,
                                   0)
                         ELSE NoHist,
                  ![s] = NoHist]
    /\ last' = Call("Result(Result&&)", c, s)
    /\ UNCHANGED <<fs, handles, streams>>

\* Result<T> r{ s };
CopyConstruct(c, s) ==
    /\ NextFree(c)
    /\ Live(s)
    /\ results' = [results EXCEPT ![c] = ResultCopyNew(results[s]),
                                  ![s] = ResultCopySrc(results[s])]
    /\ ctors' = [ctors EXCEPT ![c] = ResultConstructsValue(results[s])]
    /\ dtors' = [dtors EXCEPT ![c] = 0]
    /\ hist' = [hist EXCEPT ![c] = Hist(Empty, 0, s)]
    /\ last' = Call("Result(const Result&)", c, s)
    /\ UNCHANGED <<fs, handles, streams>>

\* r.~Result(), once per object
Destroy(c) ==
    /\ Live(c)
    /\ dtors' = [dtors EXCEPT ![c] = @ + ResultDestroysValue(results[c])]
    /\ results' = [results EXCEPT ![c] = Destroyed]
    /\ hist' = [d \in Containers |->
                  IF d = c THEN Hist(Empty, hist[c].moves, 0)
                  ELSE IF hist[d].copyOf = c THEN [hist[d] EXCEPT !.copyOf = 0]
                  ELSE hist[d]]
    /\ last' = Call("~Result", c, 0)
    /\ UNCHANGED <<fs, handles, streams>>
    /\ UNCHANGED ctors

\* r.ok()
CallOk(c) ==
    /\ Live(c)
    /\ last' = Call("ok", c, 0)
    /\ UNCHANGED <<fs, handles, streams>>
    /\ UNCHANGED <<results, ctors, dtors, hist>>

\* r.bad()
CallBad(c) ==
    /\ Live(c)
    /\ last' = Call("bad", c, 0)
    /\ UNCHANGED <<fs, handles, streams>>
    /\ UNCHANGED <<results, ctors, dtors, hist>>

\* r.err()
CallErr(c) ==
    /\ Live(c)
    /\ last' = Call("err", c, 0)
    /\ UNCHANGED <<fs, handles, streams>>
    /\ UNCHANGED <<results, ctors, dtors, hist>>

\* r.value(), read
CallValue(c) ==
    /\ Live(c)
    /\ last' = Call("value", c, 0)
    /\ UNCHANGED <<fs, handles, streams>>
    /\ UNCHANGED <<results, ctors, dtors, hist>>

\* r.msg()
CallMsg(c) ==
    /\ Live(c)
    /\ last' = Call("msg", c, 0)
    /\ UNCHANGED <<fs, handles, streams>>
    /\ UNCHANGED <<results, ctors, dtors, hist>>

\* r.value() = v; the caller keeps the precondition ok() of value()
AssignValue(c, v) ==
    /\ Live(c)
    /\ results[c].ok_
    /\ results[c].data_.active = "value"
    /\ results' = [results EXCEPT ![c].data_.value = T_assign(@, v)]
    /\ hist' = [hist EXCEPT ![c] = Hist(Empty, 0, @.copyOf)]
    /\ last' = Call("value=", c, v)
    /\ UNCHANGED <<fs, handles, streams>>
    /\ UNCHANGED <<ctors, dtors>>

Next ==
    \/ \E c \in Containers, e \in ErrInputs : ConstructErr(c, e)
    \/ \E c \in Containers, v \in Values : ConstructMoveValue(c, v)
    \/ \E c \in Containers, v \in Values : ConstructCopyValue(c, v)
    \/ \E c, s \in Containers : MoveConstruct(c, s)
    \/ \E c, s \in Containers : CopyConstruct(c, s)
    \/ \E c \in Containers : Destroy(c)
    \/ \E c \in Containers : CallOk(c)
    \/ \E c \in Containers : CallBad(c)
    \/ \E c \in Containers : CallErr(c)
    \/ \E c \in Containers : CallValue(c)
    \/ \E c \in Containers : CallMsg(c)
    \/ \E c \in Containers, v \in Values : AssignValue(c, v)

Spec == Init /\ [][Next]_vars

(* ---------------- calls of the catalog, Status, the build -------------- *)
(* The functions of the catalog and of Status are pure: every call is a    *)
(* step that records the function, its argument and what it returned. No   *)
(* Result<T> object is involved and the file system is not touched. A call *)
(* starts once the caller is done with what the call before it returned.   *)
Return(o, a, r) == [op |-> o, arg |-> a, ret |-> r]

NoObjects == UNCHANGED <<results, ctors, dtors, hist, fs, handles, streams>>

Idle == last.op = "none"

\* lookupInfo(err), err any value of the enumeration type
CallLookupInfo(err) ==
    /\ Idle
    /\ \E info \in lookupInfoOutcomes(err) :
           last' = Return("lookupInfo", err, info)
    /\ NoObjects

\* lookupMsg(err)
CallLookupMsg(err) ==
    /\ Idle
    /\ last' = Return("lookupMsg", err, lookupMsg(err))
    /\ NoObjects

\* lookup(err), the lookup of the flat table
CallLookup(err) ==
    /\ Idle
    /\ last' = Return("lookup", err, lookup(err))
    /\ NoObjects

\* ofType(err, type)
CallOfType(err, type) ==
    /\ Idle
    /\ last' = Return("ofType(Err, ErrType)", <<err, type>>, ofType(err, type))
    /\ NoObjects

\* ofType(err, subtype)
CallOfSubtype(err, subtype) ==
    /\ Idle
    /\ last' = Return("ofType(Err, ErrSubtype)", <<err, subtype>>,
                      ofSubtype(err, subtype))
    /\ NoObjects

\* ofType(err, type, subtype)
CallOfTypeSubtype(err, type, subtype) ==
    /\ Idle
    /\ last' = Return("ofType(Err, ErrType, ErrSubtype)",
                      <<err, type, subtype>>,
                      ofTypeSubtype(err, type, subtype))
    /\ NoObjects

\* a build of error.hpp with ERR_TABLE{ inits... }
StaticAssert(inits) ==
    /\ Idle
    /\ last' = Return("static_assert", TableFrom(inits),
                      TableAccepted(TableFrom(inits)))
    /\ NoObjects

\* Status s{};
ConstructStatusDefault ==
    /\ Idle
    /\ last' = Return("Status()", OK, StatusDefault)
    /\ NoObjects

\* Status s{ err };
ConstructStatus(err) ==
    /\ Idle
    /\ last' = Return("Status(Err)", err, StatusFrom(err))
    /\ NoObjects

\* a build that names Result<T>
InstantiateResult(t) ==
    /\ Idle
    /\ last' = Return("Result<T>", t,
                      [accepted |-> ResultValue(t),
                       copy |-> ResultCopyAvailable(t),
                       storage |-> ResultStorage(t)])
    /\ NoObjects

\* the caller drops what the call returned
Discard ==
    /\ ~Idle
    /\ last' = Call("none", 0, 0)
    /\ NoObjects

NextCalls ==
    \/ \E err \in U8 : CallLookupInfo(err)
    \/ \E err \in Err : CallLookupMsg(err)
    \/ \E err \in U8 : CallLookup(err)
    \/ \E err \in Err, type \in ErrType : CallOfType(err, type)
    \/ \E err \in Err, subtype \in ErrSubtype : CallOfSubtype(err, subtype)
    \/ \E err \in Err, type \in ErrType, subtype \in ErrSubtype :
           CallOfTypeSubtype(err, type, subtype)
    \/ \E inits \in TableInits : StaticAssert(inits)
    \/ ConstructStatusDefault
    \/ \E err \in U8 : ConstructStatus(err)
    \/ \E t \in Types : InstantiateResult(t)
    \/ Discard

SpecCalls == Init /\ [][NextCalls]_vars

(* ------------------------- calls of fsys ------------------------------- *)
(* A Path is modelled by the text it holds, a File by its member path_.    *)
(* The queries of Path read the file system as it is when they are called. *)
\* Path::isPath(): stdfs::exists
isPath(path, f) == f[path] /= "not_found"

\* Path::isFile(): stdfs::is_regular_file
isFile(path, f) == f[path] = "regular"

\* File{ std::move(path) }
FileFromPath(path) == [path_ |-> path]

openFile_fileCheckFirst(path, f) ==
    IF ~isFile(path, f) THEN ResultFromErr(FS_NO_SUCH_FILE)
    ELSE IF ~isPath(path, f) THEN ResultFromErr(FS_NO_SUCH_PATH)
    ELSE ResultFromMovedValue(FileFromPath(path))

\* openFile(Path &&path), returning Result<File>
openFile(path, f) ==
    IF ~isPath(path, f) THEN ResultFromErr(FS_NO_SUCH_PATH)
    ELSE IF ~isFile(path, f) THEN ResultFromErr(FS_NO_SUCH_FILE)
    ELSE ResultFromMovedValue(FileFromPath(path))

\* Path::isDir(): stdfs::is_directory; the empty path names nothing
isDir(path, f) == path \in DOMAIN f /\ f[path] = "directory"

makeFile_genericFailure(path, f) ==
    IF ~isPath(path, f) THEN ResultFromErr(FAILURE)
    ELSE IF ~isDir(parent(path), f) THEN ResultFromErr(FAILURE)
    ELSE ResultFromMovedValue(FileFromPath(path))

\* makeFile(Path &&path), returning Result<File>
makeFile(path, f) ==
    IF ~isPath(path, f) THEN ResultFromErr(FS_FILE_ALREADY_EXISTS)
    ELSE IF ~isDir(parent(path), f) THEN ResultFromErr(FS_NO_SUCH_PARENT)
    ELSE ResultFromMovedValue(FileFromPath(path))

(* the other overloads take a Path object, modelled by its member path_,   *)
(* or a text; they return what the Path&& overload returns, and the const  *)
(* Path& overloads say what their argument is afterwards                   *)
\* Path(std::string_view path) : path_{ path }
PathFromText(text) == [path_ |-> text]

\* Path(const Path &path) = default
PathCopy(p) == [path_ |-> p.path_]

\* Path::get()
PathGet(p) == p.path_

\* openFile(const Path &path): Path copy{ path }; openFile(std::move(copy))
openFileConstRef(p, f) ==
    LET copy == PathCopy(p)
    IN  [ret |-> openFile(PathGet(copy), f), arg |-> p]

openFileView_callsMakeFile(text, f) == makeFile(PathGet(PathFromText(text)), f)

\* openFile(std::string_view path): openFile(Path{ path })
openFileView(text, f) == openFile(PathGet(PathFromText(text)), f)

\* makeFile(const Path &path): Path copy{ path }; makeFile(std::move(copy))
makeFileConstRef(p, f) ==
    LET copy == PathCopy(p)
    IN  [ret |-> makeFile(PathGet(copy), f), arg |-> p]

\* makeFile(std::string_view path): makeFile(Path{ path })
makeFileView(text, f) == makeFile(PathGet(PathFromText(text)), f)

(* ------------------ FileRead and Result<FileRead> ---------------------- *)
(* A FileRead object is modelled by its member stream_. Inside a Result it *)
(* is the payload T: moving it hands over stream_ and leaves Null behind.  *)
StreamFree(s) == streams[s].state \in {"unmade", "closed"}

NextStream(s) == StreamFree(s) /\ \A t \in Streams : t < s => ~StreamFree(t)

HandleFree(h) ==
    /\ handles[h].life /= "live"
    /\ \A g \in Handles : g < h => handles[g].life = "live"

\* whether std::ifstream(path) opens: never when nothing is at the path,
\* otherwise as the operating system decides
OpenOutcomes(path, f) == IF f[path] = "not_found" THEN {FALSE} ELSE BOOLEAN

\* std::make_unique<std::ifstream>(path.get())
MadeStream(opened) ==
    [state |-> IF opened THEN "open" ELSE "failed", closes |-> 0]

\* FileRead::opened(): stream_->is_open()
FileReadOpened(stream_, strs) == strs[stream_].state = "open"

\* FileRead(FileRead &&file): the new object, stream_{ std::move(file.stream_) }
FileReadMoveTo(stream_) == stream_

FileReadMovedFrom_keepsStream(stream_) == stream_

\* the source of FileRead(FileRead &&file) afterwards
FileReadMovedFrom(stream_) == Null

\* ~FileRead(): the pointers it dereferences
FileReadDestroyDerefs(stream_) == IF stream_ = Null THEN {} ELSE {stream_}

\* ~FileRead(): close() when the stream is open; then the unique_ptr
\* deletes the stream it owns. A stream deleted without a close leaves
\* nothing behind
FileReadDestroyStreams(stream_, strs) ==
    IF stream_ = Null THEN strs
    ELSE [strs EXCEPT ![stream_] =
             IF strs[stream_].state = "open"
             THEN [state |-> "closed", closes |-> strs[stream_].closes + 1]
             ELSE IF strs[stream_].state = "failed" THEN NoStream
             ELSE [state |-> "unmade", closes |-> strs[stream_].closes]]

File_read_returnsUnopened(path, f, opened) ==
    IF ~isPath(path, f) THEN [made |-> FALSE, ok |-> FALSE, err |-> FS_NO_SUCH_PATH]
    ELSE IF ~isFile(path, f) THEN [made |-> FALSE, ok |-> FALSE, err |-> FS_NO_SUCH_FILE]
    ELSE [made |-> TRUE, ok |-> TRUE, err |-> OK]

\* File::read(): made says whether the local FileRead read{ path_ } was
\* constructed, ok whether read is returned, err the code returned otherwise
File_read(path, f, opened) ==
    IF ~isPath(path, f) THEN [made |-> FALSE, ok |-> FALSE, err |-> FS_NO_SUCH_PATH]
    ELSE IF ~isFile(path, f) THEN [made |-> FALSE, ok |-> FALSE, err |-> FS_NO_SUCH_FILE]
    ELSE IF ~opened THEN [made |-> TRUE, ok |-> FALSE, err |-> FS_FAILED_TO_OPEN]
    ELSE [made |-> TRUE, ok |-> TRUE, err |-> OK]

InitFsys ==
    /\ results = [c \in Containers |-> Unborn]
    /\ ctors = [c \in Containers |-> 0]
    /\ dtors = [c \in Containers |-> 0]
    /\ hist = [c \in Containers |-> NoHist]
    /\ last = Call("none", 0, 0)
    /\ fs \in {f \in [Paths -> FileKinds] : FsConsistent(f)}
    /\ handles = NoHandles
    /\ streams = NoStreams

\* openFile(std::move(path))
CallOpenFile(path) ==
    /\ Idle
    /\ last' = Return("openFile", path, openFile(path, fs))
    /\ NoObjects

\* openFile(path), path a const Path&
CallOpenFileConstRef(path) ==
    /\ Idle
    /\ last' = Return("openFile(const Path&)", PathFromText(path),
                      openFileConstRef(PathFromText(path), fs))
    /\ NoObjects

\* openFile(text), text a std::string_view
CallOpenFileView(text) ==
    /\ Idle
    /\ last' = Return("openFile(string_view)", text, openFileView(text, fs))
    /\ NoObjects

\* makeFile(std::move(path))
CallMakeFile(path) ==
    /\ Idle
    /\ last' = Return("makeFile", path, makeFile(path, fs))
    /\ NoObjects

\* makeFile(path), path a const Path&
CallMakeFileConstRef(path) ==
    /\ Idle
    /\ last' = Return("makeFile(const Path&)", PathFromText(path),
                      makeFileConstRef(PathFromText(path), fs))
    /\ NoObjects

\* makeFile(text), text a std::string_view
CallMakeFileView(text) ==
    /\ Idle
    /\ last' = Return("makeFile(string_view)", text, makeFileView(text, fs))
    /\ NoObjects

\* file.read(), file a File for path: which checks pass and what is returned
CallRead(path, opened) ==
    /\ Idle
    /\ opened \in OpenOutcomes(path, fs)
    /\ last' = Return("File::read", path, File_read(path, fs, opened))
    /\ NoObjects

\* another process creates, removes or replaces what a path names
ChangeFs(path, kind) ==
    /\ Idle
    /\ fs[path] /= kind
    /\ fs' = [fs EXCEPT ![path] = kind]
    /\ FsConsistent(fs')
    /\ UNCHANGED <<results, ctors, dtors, hist, last, handles, streams>>

NextFsys ==
    \/ \E path \in Paths : CallOpenFile(path)
    \/ \E path \in Paths : CallOpenFileConstRef(path)
    \/ \E text \in Paths : CallOpenFileView(text)
    \/ \E path \in Paths : CallMakeFile(path)
    \/ \E path \in Paths : CallMakeFileConstRef(path)
    \/ \E text \in Paths : CallMakeFileView(text)
    \/ \E path \in Paths, opened \in BOOLEAN : CallRead(path, opened)
    \/ \E path \in Paths, kind \in FileKinds : ChangeFs(path, kind)
    \/ Discard

SpecFsys == InitFsys /\ [][NextFsys]_vars

(* ---------------- the FileRead and Result<FileRead> objects ----------- *)
InitFileRead ==
    /\ results = [c \in Containers |-> Unborn]
    /\ ctors = [c \in Containers |-> 0]
    /\ dtors = [c \in Containers |-> 0]
    /\ hist = [c \in Containers |-> NoHist]
    /\ last = Call("none", 0, 0)
    /\ fs \in {[NoFs EXCEPT !["dir"] = "directory", !["dir/a"] = k] :
                   k \in {"not_found", "regular", "directory"}}
    /\ handles = NoHandles
    /\ streams = NoStreams

\* the path the File objects of this machine are for; the file systems of
\* InitFileRead differ in what it names
ReadPaths == {"dir/a"}

\* the last call on a FileRead or a Result<FileRead>: the operation and
\* the pointers its ~FileRead() dereferenced
Did(o, d) == [op |-> o, derefs |-> d]

NoCounts == UNCHANGED <<ctors, dtors, hist, fs>>

\* FileRead h{ path };
ConstructFileRead(h, path, opened) ==
    /\ HandleFree(h)
    /\ opened \in OpenOutcomes(path, fs)
    /\ \E s \in Streams :
          /\ NextStream(s)
          /\ handles' = [handles EXCEPT ![h] = [life |-> "live", stream_ |-> s]]
          /\ streams' = [streams EXCEPT ![s] = MadeStream(opened)]
    /\ last' = Did("FileRead(const Path&)", {})
    /\ UNCHANGED results
    /\ NoCounts

\* FileRead h{ std::move(g) };
MoveFileRead(h, g) ==
    /\ HandleFree(h)
    /\ handles[g].life = "live"
    /\ handles' = [handles EXCEPT
                     ![h] = [life |-> "live",
                             stream_ |-> FileReadMoveTo(handles[g].stream_)],
                     ![g] = [life |-> "live",
                             stream_ |-> FileReadMovedFrom(handles[g].stream_)]]
    /\ last' = Did("FileRead(FileRead&&)", {})
    /\ UNCHANGED <<results, streams>>
    /\ NoCounts

\* h.~FileRead(), once per object
DestroyFileRead(h) ==
    /\ handles[h].life = "live"
    /\ handles' = [handles EXCEPT ![h] = NoHandle]
    /\ streams' = FileReadDestroyStreams(handles[h].stream_, streams)
    /\ last' = Did("~FileRead", FileReadDestroyDerefs(handles[h].stream_))
    /\ UNCHANGED results
    /\ NoCounts

\* Result<FileRead> r{ std::move(h) };
ResultFromFileRead(c, h) ==
    /\ NextFree(c)
    /\ handles[h].life = "live"
    /\ results' = [results EXCEPT ![c] = ResultFromMovedValue(handles[h].stream_)]
    /\ handles' = [handles EXCEPT
                     ![h].stream_ = FileReadMovedFrom(handles[h].stream_)]
    /\ last' = Did("Result(T&&)", {})
    /\ UNCHANGED streams
    /\ NoCounts

\* Result<FileRead> r{ std::move(s) };
MoveResultFileRead(c, s) ==
    /\ NextFree(c)
    /\ Live(s)
    /\ results' = [results EXCEPT ![c] = ResultMoveNew(results[s]),
                                  ![s] = ResultMoveSrc(results[s])]
    /\ last' = Did("Result(Result&&)", {})
    /\ UNCHANGED <<handles, streams>>
    /\ NoCounts

\* r.~Result(), r a Result<FileRead>: runs ~FileRead() on data_.value when
\* the tag says there is one
DestroyResultFileRead(c) ==
    /\ Live(c)
    /\ results' = [results EXCEPT ![c] = Destroyed]
    /\ streams' = IF ResultDestroysValue(results[c]) = 1
                  THEN FileReadDestroyStreams(results[c].data_.value, streams)
                  ELSE streams
    /\ last' = Did("~Result",
                   IF ResultDestroysValue(results[c]) = 1
                   THEN FileReadDestroyDerefs(results[c].data_.value)
                   ELSE {})
    /\ UNCHANGED handles
    /\ NoCounts

\* Result<FileRead> r = file.read(); file a File for path. The local read
\* is moved into the returned Result or not, and then destroyed
CallFileRead(c, path, opened) ==
    /\ NextFree(c)
    /\ opened \in OpenOutcomes(path, fs)
    /\ LET out == File_read(path, fs, opened)
       IN  \E s \in Streams :
              /\ NextStream(s)
              /\ results' = [results EXCEPT ![c] =
                                IF out.ok THEN ResultFromMovedValue(s)
                                ELSE ResultFromErr(out.err)]
              /\ streams' =
                    IF out.made
                    THEN FileReadDestroyStreams(
                             IF out.ok THEN FileReadMovedFrom(s) ELSE s,
                             [streams EXCEPT ![s] = MadeStream(opened)])
                    ELSE streams
              /\ last' = [op |-> "File::read", self |-> c, arg |-> path,
                          opened |-> opened,
                          derefs |-> IF out.made
                                     THEN FileReadDestroyDerefs(
                                              IF out.ok THEN FileReadMovedFrom(s)
                                              ELSE s)
                                     ELSE {}]
    /\ UNCHANGED handles
    /\ NoCounts

NextFileRead ==
    \/ \E h \in Handles, path \in ReadPaths, opened \in BOOLEAN :
           ConstructFileRead(h, path, opened)
    \/ \E h, g \in Handles : MoveFileRead(h, g)
    \/ \E h \in Handles : DestroyFileRead(h)
    \/ \E c \in Containers, h \in Handles : ResultFromFileRead(c, h)
    \/ \E c, s \in Containers : MoveResultFileRead(c, s)
    \/ \E c \in Containers : DestroyResultFileRead(c)
    \/ \E c \in Containers, path \in ReadPaths, opened \in BOOLEAN :
           CallFileRead(c, path, opened)

SpecFileRead == InitFileRead /\ [][NextFileRead]_vars

(* ------------------- enum Ch : char, isDigit, isNumerical -------------- *)
\* the enumerators of Ch in the order of their declaration; none has an
\* initialiser, so each has the value of the one before it plus one and
\* the first has the value 0
ChDecl ==
    << "NUL", "SOH", "STX", "ETX", "EOT", "ENQ", "ACK", "BEL", "BS", "HT",
      "LF", "VT", "FF", "CR", "SO", "SI", "DLE", "DC1", "DC2", "DC3", "DC4",
      "NAK", "SYN", "ETB", "CAN", "EM", "SUB", "ESC", "FS", "GS", "RS",
      "US", "SPACE", "EXCLAMATION", "DOUBLE_QUOTE", "HASH", "DOLLAR",
      "PERCENT", "AMPERSAND", "SINGLE_QUOTE", "PAREN_OPEN", "PAREN_CLOSE",
      "STAR", "PLUS", "COMMA", "MINUS", "DOT", "SLASH", "NUM_0", "NUM_1",
      "NUM_2", "NUM_3", "NUM_4", "NUM_5", "NUM_6", "NUM_7", "NUM_8",
      "NUM_9", "COLON", "SEMI_COLON", "ANGLED_OPEN", "EQUALS",
      "ANGLED_CLOSE", "QUESTION", "AT", "UP_A", "UP_B", "UP_C", "UP_D",
      "UP_E", "UP_F", "UP_G", "UP_H", "UP_I", "UP_J", "UP_K", "UP_L",
      "UP_M", "UP_N", "UP_O", "UP_P", "UP_Q", "UP_R", "UP_S", "UP_T",
      "UP_U", "UP_V", "UP_W", "UP_X", "UP_Y", "UP_Z", "BRACKET_OPEN",
      "BACKSLASH", "BRACKET_CLOSE", "CARET", "UNDERSCORE", "BACKTICK", "A",
      "B", "C", "D", "E", "F", "G", "H", "I", "J", "K", "L", "M", "N", "O",
      "P", "Q", "R", "S", "T", "U", "V", "W", "X", "Y", "Z", "BRACE_OPEN",
      "PIPE", "BRACE_CLOSE", "TILDE", "DEL" >>

ChNames == {ChDecl[i] : i \in DOMAIN ChDecl}

\* the value of the enumerator called name
Ch(name) == (CHOOSE i \in DOMAIN ChDecl : ChDecl[i] = name) - 1

PLUS == Ch("PLUS")
MINUS == Ch("MINUS")
DOT == Ch("DOT")
NUM_0 == Ch("NUM_0")
NUM_1 == Ch("NUM_1")
NUM_2 == Ch("NUM_2")
NUM_3 == Ch("NUM_3")
NUM_4 == Ch("NUM_4")
NUM_5 == Ch("NUM_5")
NUM_6 == Ch("NUM_6")
NUM_7 == Ch("NUM_7")
NUM_8 == Ch("NUM_8")
NUM_9 == Ch("NUM_9")
UP_A == Ch("UP_A")
UP_E == Ch("UP_E")
A == Ch("A")
E == Ch("E")
F == Ch("F")
I == Ch("I")
N == Ch("N")

\* the values of a char argument, whether char is signed or unsigned
Char == -128..255

\* isDigit(chr): the switch over NUM_0 .. NUM_9
isDigit(chr) ==
    chr \in {NUM_0, NUM_1, NUM_2, NUM_3, NUM_4, NUM_5, NUM_6, NUM_7, NUM_8,
             NUM_9}

isNumerical_noUpperE(chr) ==
    IF isDigit(chr) THEN TRUE
    ELSE chr \in {NUM_0, NUM_1, NUM_2, NUM_3, NUM_4, NUM_5, NUM_6, NUM_7,
                  NUM_8, NUM_9, MINUS, PLUS, DOT, E}

\* isNumerical(chr): isDigit, then the switch over the digits and the
\* markers
isNumerical(chr) ==
    IF isDigit(chr) THEN TRUE
    ELSE chr \in {NUM_0, NUM_1, NUM_2, NUM_3, NUM_4, NUM_5, NUM_6, NUM_7,
                  NUM_8, NUM_9, MINUS, UP_E, PLUS, DOT, E}

(* ------------------------ the base constants --------------------------- *)
BASE_BINARY == 8
BASE_OCTAL == 8
BASE_DECIMAL == 10
BASE_HEXADECIMAL == 16

BaseNames == {"BASE_BINARY", "BASE_OCTAL", "BASE_DECIMAL", "BASE_HEXADECIMAL"}

\* the value of the constant called name
Base(name) ==
    CASE name = "BASE_BINARY" -> BASE_BINARY
      [] name = "BASE_OCTAL" -> BASE_OCTAL
      [] name = "BASE_DECIMAL" -> BASE_DECIMAL
      [] name = "BASE_HEXADECIMAL" -> BASE_HEXADECIMAL

(* --------------------- utils/float.hpp: read<T> ------------------------ *)
\* a text is the sequence of its chars. The texts read: every text of at most
\* MaxLen chars over TextChars, the digit strings around 2^64 =
\* 18446744073709551616, and texts the full parser treats specially
TextChars == {NUM_0, NUM_1, NUM_5, NUM_6, MINUS, PLUS, DOT, E, UP_E, A}

DigitChars == {c \in TextChars : isDigit(c)}

ShortTexts == UNION {[1..n -> TextChars] : n \in 0..MaxLen}

\* "1844674407370955161", the first nineteen digits of 2^64
Prefix2p64 ==
    <<NUM_1, NUM_8, NUM_4, NUM_4, NUM_6, NUM_7, NUM_4, NUM_4, NUM_0, NUM_7,
      NUM_3, NUM_7, NUM_0, NUM_9, NUM_5, NUM_5, NUM_1, NUM_6, NUM_1>>

LongTexts ==
    {Prefix2p64 \o t : t \in UNION {[1..n -> DigitChars] : n \in 1..MaxLen}}

\* "-inf", "-Inf", "-nan", "3e38", "4e38", "1e39", "2e308", "1e-46", "8e-46"
SpecialTexts ==
    {<<MINUS, I, N, F>>, <<MINUS, Ch("UP_I"), N, F>>, <<MINUS, N, A, N>>,
     <<NUM_3, E, NUM_3, NUM_8>>, <<NUM_4, E, NUM_3, NUM_8>>,
     <<NUM_1, E, NUM_3, NUM_9>>, <<NUM_2, E, NUM_3, NUM_0, NUM_8>>,
     <<NUM_1, E, MINUS, NUM_4, NUM_6>>, <<NUM_8, E, MINUS, NUM_4, NUM_6>>}

Texts == ShortTexts \cup LongTexts \cup SpecialTexts

\* u64 and wider unsigned integers: little-endian sequences of limbs
LimbBase == 65536

U64Limbs == 4

Zero(limbs) == [i \in 1..limbs |-> 0]

RECURSIVE MulAdd(_, _, _)
\* val * m + a in the width of val: the carry out of the last limb is lost
MulAdd(val, m, a) ==
    IF val = <<>> THEN <<>>
    ELSE LET x == Head(val) * m + a
         IN  <<x % LimbBase>> \o MulAdd(Tail(val), m, x \div LimbBase)

\* the one element of a set of one element; Only({e(x) : x \in {d}}) is
\* e(d) with d computed once
Only(S) == CHOOSE x \in S : TRUE

RECURSIVE Accumulate(_, _, _)
\* the loop of readFast over an unsigned integer of Len(val) limbs:
\* val = val * BASE_DECIMAL + static_cast<u64>(ptr[i] - NUM_0)
Accumulate(val, text, i) ==
    IF i > Len(text) THEN val
    ELSE Only({Accumulate(next, text, i + 1) :
                  next \in {MulAdd(val, BASE_DECIMAL, text[i] - NUM_0)}})

\* a value of T: not-a-number, an infinity, the T nearest to
\* mant * 10^exp, or mant * 2^exp with mant in bits, most significant first
QUIET_NAN == [class |-> "nan", neg |-> FALSE, mant |-> 0, exp |-> 0]

Infinity(neg) == [class |-> "inf", neg |-> neg, mant |-> 0, exp |-> 0]

Decimal(neg, mant, exp) ==
    [class |-> "decimal", neg |-> neg, mant |-> mant, exp |-> exp]

Binary(bits, exp) ==
    [class |-> "binary", neg |-> FALSE, mant |-> bits, exp |-> exp]

IsNaN(v) == v.class = "nan"

\* the bits of the significand of T, the hidden one included
Precision(T) == IF T = "f32" THEN 24 ELSE 53

RECURSIVE LimbBits(_, _)
LimbBits(x, n) ==
    IF n = 0 THEN <<>> ELSE LimbBits(x \div 2, n - 1) \o <<x % 2>>

RECURSIVE Bits(_)
\* the bits of val, most significant first
Bits(val) ==
    IF val = <<>> THEN <<>> ELSE Bits(Tail(val)) \o LimbBits(Head(val), 16)

RECURSIVE Strip(_)
Strip(bits) ==
    IF bits /= <<>> /\ Head(bits) = 0 THEN Strip(Tail(bits)) ELSE bits

RECURSIVE Increment(_)
\* bits + 1, one bit longer when every bit is 1
Increment(bits) ==
    IF bits = <<>> THEN <<1>>
    ELSE IF bits[Len(bits)] = 0
    THEN SubSeq(bits, 1, Len(bits) - 1) \o <<1>>
    ELSE Increment(SubSeq(bits, 1, Len(bits) - 1)) \o <<0>>

\* bits, longer than the significand of p bits, rounded to the nearest
\* multiple of 2^(Len(bits) - p), ties to the even significand
Round(bits, p) ==
    LET n == Len(bits)
        top == SubSeq(bits, 1, p)
        more == \E k \in (p + 2)..n : bits[k] = 1
        up == bits[p + 1] = 1 /\ (more \/ bits[p] = 1)
    IN  IF ~up THEN Binary(top, n - p)
        ELSE Only({IF Len(sig) > p THEN Binary(SubSeq(sig, 1, p), n - p + 1)
                   ELSE Binary(sig, n - p) : sig \in {Increment(top)}})

\* static_cast<T>(val), val a u64: exact when val fits the significand,
\* otherwise rounded
FloatFromU64(T, val) ==
    Only({IF Len(bits) <= Precision(T) THEN Binary(bits, 0)
          ELSE Round(bits, Precision(T)) : bits \in {Strip(Bits(val))}})

readFast_accumulatesU32(T, text) ==
    Only({[path |-> "fast", acc |-> val, val |-> FloatFromU64(T, val)] :
             val \in {Accumulate(Zero(2), text, 1) \o Zero(2)}})

\* readFast<T>(ptr, len): acc is the local val when the loop ends
readFast(T, text) ==
    Only({[path |-> "fast", acc |-> val, val |-> FloatFromU64(T, val)] :
             val \in {Accumulate(Zero(U64Limbs), text, 1)}})

(* std::from_chars(ptr, end, val) for a floating-point val, in the general *)
(* format: an optional '-', then "inf", "infinity" or "nan" in any case,   *)
(* or digits with at most one '.' and at least one digit, then an optional *)
(* exponent of 'e' or 'E', an optional sign and at least one digit. It     *)
(* stops at the first char that does not fit; an exponent without digits   *)
(* is not taken. No '+' is accepted before the number. The "(...)" that    *)
(* may follow "nan" is left out: with it or without, the outcome of        *)
(* readFull is the quiet NaN.                                              *)
RECURSIVE DigitRun(_, _)
\* the number of digits of s from position i on, up to the first char that
\* is no digit
DigitRun(s, i) ==
    IF i <= Len(s) /\ s[i] \in NUM_0..NUM_9 THEN 1 + DigitRun(s, i + 1) ELSE 0

RECURSIVE DigitsValue(_, _, _)
\* the value of the n digits of s from position i on
DigitsValue(s, i, n) ==
    IF n = 0 THEN 0
    ELSE DigitsValue(s, i, n - 1) * 10 + (s[i + n - 1] - NUM_0)

\* digits with at most one '.', from position i of s on: n1 digits, the
\* '.' or none, n2 digits; next is the position after them
ScanMantissa(s, i) ==
    LET n1 == DigitRun(s, i)
        dot == i + n1 <= Len(s) /\ s[i + n1] = DOT
        n2 == IF dot THEN DigitRun(s, i + n1 + 1) ELSE 0
    IN  [n1 |-> n1, dot |-> dot, n2 |-> n2,
         next |-> i + n1 + (IF dot THEN 1 ELSE 0) + n2]

\* an exponent from position i of s on: 'e' or 'E', a sign or none, n
\* digits from position start on. Without a digit no exponent is taken:
\* n is 0 and next is i
ScanExponent(s, i) ==
    LET mark == i <= Len(s) /\ s[i] \in {E, UP_E}
        sign == mark /\ i + 1 <= Len(s) /\ s[i + 1] \in {PLUS, MINUS}
        start == i + 1 + (IF sign THEN 1 ELSE 0)
        n == IF mark THEN DigitRun(s, start) ELSE 0
    IN  [n |-> n, neg |-> sign /\ s[i + 1] = MINUS, start |-> start,
         next |-> IF n = 0 THEN i ELSE start + n]

Lower(c) == IF c \in UP_A..(UP_A + 25) THEN c - UP_A + A ELSE c

\* whether word, in lower case, is at position i of s
WordAt(s, i, word) ==
    /\ i + Len(word) - 1 <= Len(s)
    /\ \A k \in DOMAIN word : Lower(s[i + k - 1]) = word[k]

RECURSIVE StripZeros(_, _)
\* mant * 10^exp with no trailing zero in mant
StripZeros(mant, exp) ==
    IF mant = 0 THEN [mant |-> 0, exp |-> 0]
    ELSE IF mant % 10 = 0 THEN StripZeros(mant \div 10, exp + 1)
    ELSE [mant |-> mant, exp |-> exp]

RECURSIVE DigitCount(_)
DigitCount(m) == IF m < 10 THEN 1 ELSE 1 + DigitCount(m \div 10)

RECURSIVE Lead3(_)
\* the first three significant digits of mant
Lead3(mant) ==
    IF mant < 10 THEN mant * 100
    ELSE IF mant < 100 THEN mant * 10
    ELSE IF mant < 1000 THEN mant
    ELSE Lead3(mant \div 10)

\* whether mant * 10^exp, mant /= 0 without trailing zeros, is outside T: it
\* rounds to an infinity or to zero. Exact for a mant of at most three
\* digits, which is all a text of fewer than seven chars with such an
\* exponent has.
\* FLT_MAX = 3.4028235e38, DBL_MAX = 1.7976931e308; half the least
\* subnormal is 7.006e-46 for f32 and 2.470e-324 for f64
OutOfRange(T, mant, exp) ==
    LET order == exp + DigitCount(mant) - 1
        maxOrder == IF T = "f32" THEN 38 ELSE 308
        maxLead == IF T = "f32" THEN 340 ELSE 179
        minOrder == IF T = "f32" THEN -46 ELSE -324
        minLead == IF T = "f32" THEN 700 ELSE 247
    IN  \/ order > maxOrder
        \/ order = maxOrder /\ Lead3(mant) > maxLead
        \/ order < minOrder
        \/ order = minOrder /\ Lead3(mant) <= minLead

\* from_chars on a number: its digits m, its exponent e
Parsed(T, text, neg, i, m, e) ==
    LET expo == IF e.neg THEN 0 - DigitsValue(text, e.start, e.n)
                ELSE DigitsValue(text, e.start, e.n)
    IN  Only({IF num.mant /= 0 /\ OutOfRange(T, num.mant, num.exp)
              THEN [ec |-> "result_out_of_range", taken |-> e.next - 1,
                    val |-> QUIET_NAN]
              ELSE [ec |-> "ok", taken |-> e.next - 1,
                    val |-> Decimal(neg, num.mant, num.exp)] :
                 num \in {StripZeros(
                             DigitsValue(
                                 SubSeq(text, i, i + m.n1 - 1)
                                     \o SubSeq(text, m.next - m.n2, m.next - 1),
                                 1, m.n1 + m.n2),
                             expo - m.n2)}})

\* the result of from_chars: ec, the chars taken, and the value stored when
\* ec is errc{}
from_chars(T, text) ==
    LET neg == text /= <<>> /\ Head(text) = MINUS
        i == IF neg THEN 2 ELSE 1
    IN  IF WordAt(text, i, <<I, N, F, I, N, I, Ch("T"), Ch("Y")>>)
        THEN [ec |-> "ok", taken |-> i + 7, val |-> Infinity(neg)]
        ELSE IF WordAt(text, i, <<I, N, F>>)
        THEN [ec |-> "ok", taken |-> i + 2, val |-> Infinity(neg)]
        ELSE IF WordAt(text, i, <<N, A, N>>)
        THEN [ec |-> "ok", taken |-> i + 2, val |-> QUIET_NAN]
        ELSE Only({IF m.n1 + m.n2 = 0
                   THEN [ec |-> "invalid_argument", taken |-> 0,
                         val |-> QUIET_NAN]
                   ELSE Only({Parsed(T, text, neg, i, m, e) :
                                 e \in {ScanExponent(text, m.next)}}) :
                      m \in {ScanMantissa(text, i)}})

\* readFull<T>(ptr, len): val when from_chars reports no error and took the
\* whole text, the quiet NaN otherwise
readFull(T, text) ==
    Only({[path |-> "full", acc |-> Zero(U64Limbs),
           val |-> IF res.ec = "ok" /\ res.taken = Len(text) THEN res.val
                   ELSE QUIET_NAN] : res \in {from_chars(T, text)}})

Markers == {MINUS, UP_E, PLUS, DOT, E}

\* read<T>(view): the full parser at the first marker char, the fast path
\* when there is none
read(T, text) ==
    IF \E i \in DOMAIN text : text[i] \in Markers
    THEN readFull(T, text)
    ELSE readFast(T, text)

readF32(text) == read("f32", text)

readF64(text) == read("f64", text)

(* ----------------- utils/consteval.hpp: forEachPair -------------------- *)
\* what a call of forEachPair or forEachAdj does is the sequence of the
\* instantiations <I, J> of func it invokes
MaxN == 5

\* std::make_index_sequence<N>: 0, 1, ..., N - 1
make_index_sequence(n) == [k \in 1..n |-> k - 1]

RECURSIVE Flatten(_)
\* the comma fold (e, ...): the operands in order, one after the other
Flatten(calls) ==
    IF calls = <<>> THEN <<>> ELSE Head(calls) \o Flatten(Tail(calls))

\* callEachIndex<N>(func, seq): (func.template operator()<I>(), ...);
\* func[i] is what the instantiation func<i> invokes
callEachIndex(func, seq) == Flatten([k \in DOMAIN seq |-> func[seq[k]]])

\* forEachIndex<N>(func)
forEachIndex(n, func) == callEachIndex(func, make_index_sequence(n))

callEachPair_includesDiagonal(n, seq) ==
    LET row(i) ==
            forEachIndex(n, [j \in 0..(n - 1) |->
                                IF i <= j THEN << <<i, j>> >> ELSE <<>>])
    IN  Flatten([k \in DOMAIN seq |-> row(seq[k])])

\* callEachPair<N>(func, seq): for each I of seq in turn, forEachIndex<N>
\* over J, invoking func<I, J> if constexpr (I < J)
callEachPair(n, seq) ==
    LET row(i) ==
            forEachIndex(n, [j \in 0..(n - 1) |->
                                IF i < j THEN << <<i, j>> >> ELSE <<>>])
    IN  Flatten([k \in DOMAIN seq |-> row(seq[k])])

\* forEachPair<N>(func)
forEachPair(n) == callEachPair(n, make_index_sequence(n))

\* forEachAdj<N>(func)
forEachAdj(n) ==
    IF n >= 2
    THEN forEachIndex(n - 1, [i \in 0..(n - 2) |-> << <<i, i + 1>> >>])
    ELSE <<>>

(* ------------------------- calls of utils ------------------------------ *)
\* static_cast<int>(name), name an enumerator of Ch
ReadEnumerator(name) ==
    /\ Idle
    /\ last' = Return("Ch", name, Ch(name))
    /\ NoObjects

\* isDigit(chr)
CallIsDigit(chr) ==
    /\ Idle
    /\ last' = Return("isDigit", chr, isDigit(chr))
    /\ NoObjects

\* isNumerical(chr)
CallIsNumerical(chr) ==
    /\ Idle
    /\ last' = Return("isNumerical", chr, isNumerical(chr))
    /\ NoObjects

\* a read of the constant called name
ReadBase(name) ==
    /\ Idle
    /\ last' = Return("base", name, Base(name))
    /\ NoObjects

\* readF32(view)
CallReadF32(text) ==
    /\ Idle
    /\ last' = Return("readF32", text, readF32(text))
    /\ NoObjects

\* readF64(view)
CallReadF64(text) ==
    /\ Idle
    /\ last' = Return("readF64", text, readF64(text))
    /\ NoObjects

\* forEachPair<N>(func)
CallForEachPair(n) ==
    /\ Idle
    /\ last' = Return("forEachPair", n, forEachPair(n))
    /\ NoObjects

\* forEachAdj<N>(func)
CallForEachAdj(n) ==
    /\ Idle
    /\ last' = Return("forEachAdj", n, forEachAdj(n))
    /\ NoObjects

\* a call is made when the one before has returned and its result has
\* been dropped
NextUtils ==
    \/ /\ Idle
       /\ \/ \E name \in ChNames : ReadEnumerator(name)
          \/ \E chr \in Char : CallIsDigit(chr)
          \/ \E chr \in Char : CallIsNumerical(chr)
          \/ \E name \in BaseNames : ReadBase(name)
          \/ \E text \in Texts : CallReadF32(text)
          \/ \E text \in Texts : CallReadF64(text)
          \/ \E n \in 0..MaxN : CallForEachPair(n)
          \/ \E n \in 0..MaxN : CallForEachAdj(n)
    \/ Discard

SpecUtils == Init /\ [][NextUtils]_vars

(* ------------------------------ claims --------------------------------- *)
Success(c) == Live(c) /\ results[c].ok_

Failure(c) == Live(c) /\ ~results[c].ok_

\* C1: in every reachable state, of every live Result exactly one of ok()
\* and bad() is true
C1_ExactlyOneOfOkBad ==
    \A c \in Containers :
        Live(c) => (ok(results[c]) /= bad(results[c]))

\* bad() has been called while a moved-from Success and a Failure are live
C1_Witness ==
    /\ last.op = "bad"
    /\ \E c \in Containers :
          Success(c) /\ results[c].data_.value = Empty /\ ~bad(results[c])
    /\ \E c \in Containers : Failure(c) /\ ~ok(results[c])

\* C2: a Result constructed from a value v, by move or by copy, is ok(),
\* not bad(), and value() is v
C2_FromValueIsSuccess ==
    last.op \in {"Result(T&&)", "Result(const T&)"} =>
        /\ ok(results[last.self])
        /\ ~bad(results[last.self])
        /\ valueOutcomes(results[last.self]) = {last.arg}

C2_Witness ==
    /\ last.op = "Result(T&&)"
    /\ last.arg = MaxValue
    /\ Success(last.self)

\* C3: a Result constructed from a code e is bad(), not ok(), and err() is e
C3_FromErrIsFailure ==
    last.op = "Result(Err)" =>
        /\ bad(results[last.self])
        /\ ~ok(results[last.self])
        /\ errOutcomes(results[last.self]) = {last.arg}

C3_Witness ==
    /\ last.op = "Result(Err)"
    /\ last.arg = INDEX_OUT_OF_RANGE
    /\ Failure(last.self)

\* C4: msg() of a Failure with code c is the rendered message of c, with
\* its bracketed category and subcategory tags
C4_MsgIsRenderedMessage ==
    \A c \in Containers :
        Failure(c) =>
            msgOutcomes(results[c]) = {lookupMsg(e) : e \in errOutcomes(results[c])}

\* C5: a move-constructed Result has the tag its source had, and the value
\* (Success) or the code (Failure) of the source
C5_MovePreservesBranch ==
    [][last'.op = "Result(Result&&)" =>
         LET c == last'.self
             s == last'.arg
         IN  /\ ok(results'[c]) = ok(results[s])
             /\ ok(results[s]) =>
                    valueOutcomes(results'[c]) = valueOutcomes(results[s])
             /\ bad(results[s]) =>
                    errOutcomes(results'[c]) = errOutcomes(results[s])]_vars

\* a Failure has just been moved: the new object holds its code
C5_Witness ==
    /\ last.op = "Result(Result&&)"
    /\ Failure(last.self)
    /\ errOutcomes(results[last.self]) = {FS_NO_SUCH_FILE}

\* C6: every T constructed in a container is destroyed exactly once when
\* the container is, never before and never twice, and after a move of a
\* Success only the new container holds the value
C6_PayloadDestroyedOnce ==
    /\ \A c \in Containers :
          /\ ctors[c] <= 1
          /\ dtors[c] <= ctors[c]
          /\ Live(c) => dtors[c] = 0
          /\ results[c].life = "destroyed" => dtors[c] = ctors[c]
    /\ (last.op = "Result(Result&&)" /\ Success(last.self)) =>
          /\ Live(last.arg)
          /\ valueOutcomes(results[last.arg]) = {Empty}

\* every container is destroyed, one of them was move-constructed from a
\* Success, and each T has been constructed and destroyed once
C6_Witness ==
    /\ \A c \in Containers :
          results[c].life = "destroyed" /\ ctors[c] = 1 /\ dtors[c] = 1
    /\ \E c \in Containers : hist[c].moves >= 1

\* C7: copy construction gives the copy the tag and the value or code of
\* the original and leaves the original as it was, and a later write through
\* value() of the copy leaves the original as it was
C7_CopyLeavesOriginal ==
    [][/\ last'.op = "Result(const Result&)" =>
            LET c == last'.self
                s == last'.arg
            IN  /\ results'[s] = results[s]
                /\ ok(results'[c]) = ok(results[s])
                /\ ok(results[s]) =>
                       valueOutcomes(results'[c]) = valueOutcomes(results[s])
                /\ bad(results[s]) =>
                       errOutcomes(results'[c]) = errOutcomes(results[s])
       /\ (last'.op = "value=" /\ hist[last'.self].copyOf /= 0) =>
            LET s == hist[last'.self].copyOf
            IN  results'[s] = results[s]]_vars

\* the copy of a Success has been written to and differs from its original
C7_Witness ==
    /\ last.op = "value="
    /\ hist[last.self].copyOf /= 0
    /\ Success(hist[last.self].copyOf)
    /\ results[hist[last.self].copyOf].data_.value \in Values
    /\ results[last.self].data_.value /= results[hist[last.self].copyOf].data_.value

\* C8: a Result reached from a construction from v by two (or more) move
\* constructions, with no write, is ok() and value() is v
C8_RoundTripThroughMoves ==
    \A c \in Containers :
        (Live(c) /\ hist[c].from /= Empty /\ hist[c].moves >= 2) =>
            /\ ok(results[c])
            /\ valueOutcomes(results[c]) = {hist[c].from}

\* value() has been called with a twice-moved value live
C8_Witness ==
    /\ last.op = "value"
    /\ \E c \in Containers :
          Success(c) /\ hist[c].moves = 2 /\ hist[c].from = MaxValue

\* C9: no operation changes the tag of a live Result, nor the code of a
\* Failure
C9_TagFixed ==
    [][\A c \in Containers :
         (Live(c) /\ Live(c)') =>
            /\ ok(results'[c]) = ok(results[c])
            /\ bad(results'[c]) = bad(results[c])
            /\ bad(results[c]) =>
                   errOutcomes(results'[c]) = errOutcomes(results[c])]_vars

\* a Success has just been the source of a move and still is a Success
C9_Witness ==
    /\ last.op = "Result(Result&&)"
    /\ Success(last.arg)
    /\ Success(last.self)

\* C10: the destructor destroys one T when the Result is a Success and
\* none when it is a Failure
C10_DestroysValueIffSuccess ==
    [][last'.op = "~Result" =>
         LET c == last'.self
         IN  /\ ok(results[c]) => dtors'[c] = dtors[c] + 1
             /\ bad(results[c]) => dtors'[c] = dtors[c]]_vars

\* a Success and a Failure have been destroyed
C10_Witness ==
    /\ last.op = "~Result"
    /\ \E c, d \in Containers :
          /\ results[c].life = "destroyed" /\ ctors[c] = 1 /\ dtors[c] = 1
          /\ results[d].life = "destroyed" /\ ctors[d] = 0 /\ dtors[d] = 0

(* ---------------------- claims on the catalog -------------------------- *)
\* the parts of the rendered message of a code: its two tags and its base
\* message; a tag is absent exactly when the classification is NONE
CategoryTag(err) == lookupPrefixType(lookupInfo(err).type)

SubcategoryTag(err) == lookupPrefixSubtype(lookupInfo(err).subtype)

BaseMessage(err) == lookupInfo(err).msg

\* C11: for every error code c, lookupMsg(c) is the bracketed category tag
\* (empty when the category is NONE) immediately followed by the bracketed
\* subcategory tag (empty when the subcategory is NONE), then the base
\* message, with a space before the base message only when at least one tag
\* is present; NOT_IMPLEMENTED gives "Not implemented" and FS_NO_SUCH_FILE
\* gives "[fsys][access] No such file"
C11_LookupMsgFormat ==
    last.op = "lookupMsg" =>
        LET c == last.arg
            info == lookupInfo(c)
            untagged == info.type = "NONE" /\ info.subtype = "NONE"
        IN  /\ (CategoryTag(c) = "") <=> (info.type = "NONE")
            /\ (SubcategoryTag(c) = "") <=> (info.subtype = "NONE")
            /\ last.ret = IF untagged
                          THEN BaseMessage(c)
                          ELSE CategoryTag(c) \o SubcategoryTag(c) \o " "
                                   \o BaseMessage(c)
            /\ c = NOT_IMPLEMENTED => last.ret = "Not implemented"
            /\ c = FS_NO_SUCH_FILE => last.ret = "[fsys][access] No such file"

C11_Witness ==
    /\ last.op = "lookupMsg"
    /\ last.arg = FS_NO_SUCH_FILE
    /\ last.ret = "[fsys][access] No such file"

\* the present (non-empty) parts of a message joined with single spaces
RECURSIVE JoinPresent(_)
JoinPresent(parts) ==
    IF parts = <<>> THEN ""
    ELSE LET rest == JoinPresent(Tail(parts))
         IN  IF Head(parts) = "" THEN rest
             ELSE IF rest = "" THEN Head(parts)
             ELSE Head(parts) \o " " \o rest

\* C12, as stated: the rendered message joins its present parts (category
\* tag, subcategory tag, base message) with single spaces, every two
\* adjacent present parts being separated by exactly one space
C12_PartsJoinedBySingleSpaces ==
    last.op = "lookupMsg" =>
        last.ret = JoinPresent(<<CategoryTag(last.arg),
                                 SubcategoryTag(last.arg),
                                 BaseMessage(last.arg)>>)

\* C12, amended: a code with at most one tag renders as its present parts
\* joined with single spaces; a code with both tags renders the two tags
\* with nothing between them, then one space, then the base message
C12_TagsAdjacentThenOneSpace ==
    last.op = "lookupMsg" =>
        LET c == last.arg
        IN  IF CategoryTag(c) /= "" /\ SubcategoryTag(c) /= ""
            THEN last.ret = CategoryTag(c) \o SubcategoryTag(c)
                                \o " " \o BaseMessage(c)
            ELSE last.ret = JoinPresent(<<CategoryTag(c), SubcategoryTag(c),
                                          BaseMessage(c)>>)

C12_Witness ==
    /\ last.op = "lookupMsg"
    /\ CategoryTag(last.arg) /= ""
    /\ SubcategoryTag(last.arg) /= ""
    /\ last.ret = "[json][parse] Invalid token"

\* C13: every declared error code has a non-empty base message, and the
\* build-time check rejects a table in which any declared code, not only
\* the last one, lacks a message
C13_EveryCodeHasMessage ==
    /\ last.op = "lookupInfo" /\ last.arg \in Err => last.ret.msg /= ""
    /\ last.op = "static_assert" =>
           ((\E i \in DOMAIN last.arg : last.arg[i] = "") => ~last.ret)

\* C14: the catalog lookup is total over the 8-bit code type: for every
\* value, ERR_COUNT and the values above the enumerators included, it
\* returns a record, and for each value that is not a declared error code
\* it returns the same fallback record, with the generic unknown-error
\* message and the classification (NONE, NONE); the flat lookup returns its
\* unknown-error message for every value that is not an index of its table
C14_LookupTotalWithFallback ==
    /\ last.op = "lookupInfo" /\ last.arg >= ERR_COUNT =>
           last.ret = ErrInfo("Unknown error", "NONE", "NONE")
    /\ last.op = "lookup" /\ last.arg >= Len(ERR_TABLE) =>
           last.ret = "Unknown Error"

\* C15: for every code c, category t and subcategory s, ofType(c, t) is
\* true exactly when the category recorded for c, which is the one c is
\* declared under, equals t; ofType(c, s) likewise for the subcategory;
\* ofType(c, t, s) is true exactly when both match, hence implies
\* ofType(c, t) and ofType(c, s); and each code satisfies ofType(c, t, s)
\* for exactly one pair (t, s)
C15_OfTypeMatchesClassification ==
    /\ last.op = "ofType(Err, ErrType)" =>
           /\ last.ret <=> (lookupInfo(last.arg[1]).type = last.arg[2])
           /\ lookupInfo(last.arg[1]).type = DeclaredType(last.arg[1])
    /\ last.op = "ofType(Err, ErrSubtype)" =>
           /\ last.ret <=> (lookupInfo(last.arg[1]).subtype = last.arg[2])
           /\ lookupInfo(last.arg[1]).subtype = DeclaredSubtype(last.arg[1])
    /\ last.op = "ofType(Err, ErrType, ErrSubtype)" =>
           LET c == last.arg[1]
               t == last.arg[2]
               s == last.arg[3]
           IN  /\ last.ret <=> /\ lookupInfo(c).type = t
                               /\ lookupInfo(c).subtype = s
               /\ last.ret => ofType(c, t) /\ ofSubtype(c, s)
               /\ Cardinality({p \in ErrType \X ErrSubtype :
                                  ofTypeSubtype(c, p[1], p[2])}) = 1

C15_Witness ==
    /\ last.op = "ofType(Err, ErrType, ErrSubtype)"
    /\ last.arg = <<FS_NO_SUCH_FILE, "FSYS", "ACCESS">>
    /\ last.ret

(* ------------------------ claims on Status ----------------------------- *)
\* C16: for every code e, Status(e).err() is e, Status(e).ok() holds
\* exactly when e is OK, and ok() is the negation of bad(); a
\* default-constructed Status is ok() and its err() is OK
C16_StatusReportsItsCode ==
    /\ last.op = "Status(Err)" =>
           /\ Status_err(last.ret) = last.arg
           /\ Status_ok(last.ret) <=> (last.arg = OK)
           /\ Status_ok(last.ret) <=> ~Status_bad(last.ret)
    /\ last.op = "Status()" =>
           /\ Status_ok(last.ret)
           /\ Status_err(last.ret) = OK
           /\ Status_ok(last.ret) <=> ~Status_bad(last.ret)

C16_Witness ==
    /\ last.op = "Status(Err)"
    /\ last.arg = FS_NO_SUCH_FILE
    /\ Status_bad(last.ret)
    /\ Status_err(last.ret) = FS_NO_SUCH_FILE

\* C17: a Result<T> constructed from the code OK is still a Failure: bad()
\* is true, ok() is false, err() is OK and msg() is "Ok"; a Status
\* constructed from the same code reports success
C17_ResultFromOkIsFailure ==
    last.op = "Result(Err)" /\ last.arg = OK =>
        /\ bad(results[last.self])
        /\ ~ok(results[last.self])
        /\ errOutcomes(results[last.self]) = {OK}
        /\ msgOutcomes(results[last.self]) = {"Ok"}
        /\ Status_ok(StatusFrom(last.arg))
        /\ ~Status_bad(StatusFrom(last.arg))

C17_Witness ==
    /\ last.op = "Result(Err)"
    /\ last.arg = OK
    /\ Failure(last.self)
    /\ Status_ok(StatusFrom(OK))

(* ------------------ claims on the constraints on T --------------------- *)
\* C18: a type T is accepted by Result<T> exactly when it is destructible
\* without throwing, move-constructible and move-constructible without
\* throwing, and either not copy-constructible at all or copy-constructible
\* without throwing; the copy operations of Result<T> are available exactly
\* when T is copy-constructible without throwing
C18_AcceptedTypes ==
    last.op = "Result<T>" =>
        LET t == last.arg
        IN  /\ last.ret.accepted <=>
                   /\ t.nothrow_destructible
                   /\ t.move_constructible
                   /\ t.nothrow_move_constructible
                   /\ ~t.copy_constructible \/ t.nothrow_copy_constructible
            /\ last.ret.accepted =>
                   (last.ret.copy <=> t.nothrow_copy_constructible)

C18_Witness ==
    /\ last.op = "Result<T>"
    /\ ~last.arg.copy_constructible
    /\ last.ret.accepted
    /\ ~last.ret.copy

\* C19: a Result over a reference type keeps only the address of its
\* referent: value() returns the very object supplied at construction, and
\* destroying the Result does not destroy or change the referent
C19_ReferenceStorageKeepsReferent ==
    last.op = "Result<T>" /\ last.arg.reference =>
        last.ret.storage = "reference"

(* -------------------------- claims on fsys ----------------------------- *)
\* C20: openFile(path) returns a Failure with FS_NO_SUCH_PATH when nothing
\* exists at path, a Failure with FS_NO_SUCH_FILE when something exists at
\* path that is not a regular file, and otherwise a Success holding a File
\* for that path; the existence check comes first
C20_OpenFileOutcomes ==
    last.op = "openFile" =>
        LET path == last.arg
            r == last.ret
        IN  /\ fs[path] = "not_found" =>
                   bad(r) /\ errOutcomes(r) = {FS_NO_SUCH_PATH}
            /\ fs[path] \in {"directory", "other"} =>
                   bad(r) /\ errOutcomes(r) = {FS_NO_SUCH_FILE}
            /\ fs[path] = "regular" =>
                   ok(r) /\ valueOutcomes(r) = {FileFromPath(path)}

C20_Witness ==
    /\ last.op = "openFile"
    /\ fs[last.arg] = "directory"
    /\ bad(last.ret)
    /\ errOutcomes(last.ret) = {FS_NO_SUCH_FILE}

(* ------------------ claims on FileRead and File::read ------------------ *)
\* the Result<FileRead> c holds a FileRead that owns a stream
HoldsStream(c) ==
    /\ Success(c)
    /\ results[c].data_.active = "value"
    /\ results[c].data_.value /= Null

\* C21: File::read() returns one outcome, chosen by the first failing check
\* in the order path missing (FS_NO_SUCH_PATH), not a regular file
\* (FS_NO_SUCH_FILE), stream failed to open (FS_FAILED_TO_OPEN), and
\* otherwise a Success; the Success it returns holds a FileRead whose stream
\* is open, and when a Result that holds an open stream is moved, the new
\* Result holds that stream, still open
C21_ReadOutcomeAndOpenStream ==
    [][/\ last'.op = "File::read" =>
           LET c == last'.self
               kind == fs'[last'.arg]
               r == results'[c]
           IN  /\ r.life = "live"
               /\ kind = "not_found" =>
                      bad(r) /\ errOutcomes(r) = {FS_NO_SUCH_PATH}
               /\ kind \notin {"not_found", "regular"} =>
                      bad(r) /\ errOutcomes(r) = {FS_NO_SUCH_FILE}
               /\ kind = "regular" /\ ~last'.opened =>
                      bad(r) /\ errOutcomes(r) = {FS_FAILED_TO_OPEN}
               /\ kind = "regular" /\ last'.opened =>
                      /\ ok(r)
                      /\ valueOutcomes(r) \cap {Null} = {}
                      /\ \A s \in valueOutcomes(r) :
                             FileReadOpened(s, streams')
       /\ last'.op = "Result(Result&&)" =>
           \A c, s \in Containers :
               /\ ~Live(c)
               /\ results'[c].life = "live"
               /\ HoldsStream(s)
               /\ results'[s] /= results[s]
               /\ FileReadOpened(results[s].data_.value, streams)
               => /\ ok(results'[c])
                  /\ valueOutcomes(results'[c]) = {results[s].data_.value}
                  /\ FileReadOpened(results[s].data_.value, streams')]_vars

C21_Witness ==
    /\ last.op = "Result(Result&&)"
    /\ \E c, s \in Containers :
           /\ HoldsStream(c)
           /\ FileReadOpened(results[c].data_.value, streams)
           /\ Success(s)
           /\ results[s].data_.value = Null
    /\ \A h \in Handles : handles[h] = NoHandle

(* --------------------- claims on openFile, makeFile -------------------- *)
\* the failure codes the last call of fsys returned
ReturnedFailureCodes ==
    IF last.op \in {"openFile", "openFile(string_view)",
                    "makeFile", "makeFile(string_view)"}
    THEN IF bad(last.ret) THEN errOutcomes(last.ret) ELSE {}
    ELSE IF last.op \in {"openFile(const Path&)", "makeFile(const Path&)"}
    THEN IF bad(last.ret.ret) THEN errOutcomes(last.ret.ret) ELSE {}
    ELSE IF last.op = "File::read"
    THEN IF last.ret.ok THEN {} ELSE {last.ret.err}
    ELSE {}

\* C22: every failure code that openFile, makeFile or File::read returns is
\* classified in the file system category, with the subcategory ACCESS
C22_FailureCodesAreFsysAccess ==
    \A e \in ReturnedFailureCodes :
        /\ ofType(e, "FSYS")
        /\ ofSubtype(e, "ACCESS")
        /\ ofTypeSubtype(e, "FSYS", "ACCESS")

C22_Witness ==
    /\ last.op = "makeFile"
    /\ ReturnedFailureCodes = {FS_NO_SUCH_PARENT}

\* C24: for one path text and one file system state the three overloads of
\* openFile return the same outcome, as do the three of makeFile, and the
\* const Path& overloads leave their argument as it was
C24_OverloadsAgree ==
    /\ last.op = "openFile(const Path&)" =>
            /\ last.ret.ret = openFile(PathGet(last.arg), fs)
            /\ last.ret.ret = openFileView(PathGet(last.arg), fs)
            /\ last.ret.arg = last.arg
    /\ last.op = "openFile(string_view)" =>
            /\ last.ret = openFile(last.arg, fs)
            /\ last.ret = openFileConstRef(PathFromText(last.arg), fs).ret
    /\ last.op = "makeFile(const Path&)" =>
            /\ last.ret.ret = makeFile(PathGet(last.arg), fs)
            /\ last.ret.ret = makeFileView(PathGet(last.arg), fs)
            /\ last.ret.arg = last.arg
    /\ last.op = "makeFile(string_view)" =>
            /\ last.ret = makeFile(last.arg, fs)
            /\ last.ret = makeFileConstRef(PathFromText(last.arg), fs).ret

C24_Witness ==
    /\ last.op = "openFile(string_view)"
    /\ ok(last.ret)
    /\ last.ret = openFile(last.arg, fs)
    /\ \E q \in Paths : bad(openFileView(q, fs))

\* C25 as stated: makeFile fails with FS_FILE_ALREADY_EXISTS exactly when
\* something exists at the path, fails with FS_NO_SUCH_PARENT when nothing
\* exists there and the parent is not an existing directory, and succeeds
\* with a File for the path when nothing exists and the parent directory does
C25_MakeFileOutcomes ==
    last.op = "makeFile" =>
        LET exists == fs[last.arg] # "not_found"
            already == bad(last.ret)
                        /\ errOutcomes(last.ret) = {FS_FILE_ALREADY_EXISTS}
        IN  /\ exists <=> already
            /\ (~exists /\ ~isDir(parent(last.arg), fs)) =>
                    (bad(last.ret)
                        /\ errOutcomes(last.ret) = {FS_NO_SUCH_PARENT})
            /\ (~exists /\ isDir(parent(last.arg), fs)) =>
                    (ok(last.ret)
                        /\ valueOutcomes(last.ret) = {FileFromPath(last.arg)})

(* ------------------- claims on FileRead's stream ----------------------- *)
\* the FileRead objects whose stream_ points at stream s: the objects
\* themselves and the values held by a Result<FileRead>
HandleOwners(s) == {h \in Handles : handles[h].life = "live"
                                     /\ handles[h].stream_ = s}

ResultOwners(s) == {c \in Containers : HoldsStream(c)
                                        /\ results[c].data_.value = s}

Owners(s) == Cardinality(HandleOwners(s)) + Cardinality(ResultOwners(s))

\* a stream object exists from make_unique until the unique_ptr deletes it
StreamExists(s) == streams[s].state \in {"open", "failed"}

DestructorOps == {"~FileRead", "~Result", "File::read"}

\* C26: a stream has one owner at a time; through any sequence of moves and
\* destructions of FileRead objects and of Results that hold them, a stream
\* that opened is closed once, by the destructor of the object that owns it
\* last, and the destructor of a moved-from FileRead touches no stream and
\* dereferences no null pointer
C26_StreamClosedOnceByLastOwner ==
    /\ [](\A s \in Streams :
            /\ Owners(s) = IF StreamExists(s) THEN 1 ELSE 0
            /\ streams[s].closes \in {0, 1}
            /\ (streams[s].state = "closed" => streams[s].closes = 1)
            /\ (streams[s].state \in {"unmade", "failed", "open"}
                   => streams[s].closes = 0))
    /\ [](last.op \in DestructorOps => Null \notin last.derefs)
    /\ [][/\ \A s \in Streams :
               (streams[s].state = "open" /\ streams'[s] /= streams[s])
               => /\ last'.op \in DestructorOps
                  /\ last'.derefs = {s}
                  /\ streams'[s] = [state |-> "closed", closes |-> 1]
                  /\ Owners(s)' = 0
           /\ ((last'.op \in {"~FileRead", "~Result"} /\ last'.derefs = {})
                  => streams' = streams)
           /\ (last'.op \in {"FileRead(FileRead&&)", "Result(T&&)",
                              "Result(Result&&)"}
                  => streams' = streams)]_vars

C26_Witness ==
    /\ last.op = "~Result"
    /\ \E s \in Streams :
          /\ last.derefs = {s}
          /\ streams[s] = [state |-> "closed", closes |-> 1]
          /\ Owners(s) = 0
    /\ \E h \in Handles : handles[h] = [life |-> "live", stream_ |-> Null]
    /\ \E c \in Containers : Success(c) /\ results[c].data_.value = Null

(* ----------------------- claims on read<T> ----------------------------- *)
ReadOps == {"readF32", "readF64"}

ReadType(o) == IF o = "readF32" THEN "f32" ELSE "f64"

\* a well-formed decimal number: an optional sign, digits with at most one
\* '.' among them and at least one digit, and optionally an exponent marker
\* followed by an optional sign and at least one digit
WellFormedDecimal(text) ==
    LET i == IF text /= <<>> /\ Head(text) \in {43, 45} THEN 2 ELSE 1
    IN  \E m \in {ScanMantissa(text, i)} :
            /\ m.n1 + m.n2 >= 1
            /\ ScanExponent(text, m.next).next = Len(text) + 1

\* C23 as stated: for a text that is not a well-formed decimal number, the
\* empty text and a text with a letter that is no exponent marker among
\* them, readF32 and readF64 return the not-a-number value
C23_MalformedTextReadsAsNaN ==
    (last.op \in ReadOps /\ ~WellFormedDecimal(last.arg))
        => IsNaN(last.ret.val)

\* the decimal value of a digit string in 96 bits, which hold every digit
\* string of at most 28 digits
TrueValue(text) == Accumulate(Zero(6), text, 1)

Low64(wide) == SubSeq(wide, 1, U64Limbs)

Widen(val) == val \o Zero(2)

\* C27: a text made of decimal digits only is read on the fast path, which
\* returns the value its 64-bit accumulator holds, the decimal value of the
\* digit string modulo 2^64: the true value when that is below 2^64 and
\* another value when it is not; a text with one of '-', '+', '.', 'e', 'E'
\* in it is read by the full parser
C27_FastPathValueModulo2p64 ==
    last.op \in ReadOps =>
        LET text == last.arg
            digitsOnly == \A i \in DOMAIN text : text[i] \in 48..57
            marked == \E i \in DOMAIN text : text[i] \in {45, 43, 46, 101, 69}
        IN  /\ digitsOnly =>
                \A true \in {TrueValue(text)} :
                    /\ last.ret.path = "fast"
                    /\ last.ret.acc = Low64(true)
                    /\ (Widen(last.ret.acc) = true)
                           <=> (SubSeq(true, U64Limbs + 1, Len(true)) = Zero(2))
                    /\ last.ret.val
                           = FloatFromU64(ReadType(last.op), Low64(true))
                    /\ ~IsNaN(last.ret.val)
            /\ marked => last.ret.path = "full"
            /\ ~marked => last.ret.path = "fast"

\* "18446744073709551616", 2^64, is read as 0
C27_Witness ==
    /\ last.op = "readF64"
    /\ last.arg = Prefix2p64 \o <<54>>
    /\ last.ret.path = "fast"
    /\ last.ret.acc = Zero(U64Limbs)
    /\ TrueValue(last.arg) = <<0, 0, 0, 0, 1, 0>>

(* ------------------- claims on Ch and the constants -------------------- *)
\* C28: the enumerators of Ch have the ASCII codes of the chars they name
\* (NUL 0, NUM_0 48, UP_A 65, A 97, DEL 127, the digits 48..57, '+' 43,
\* '-' 45, '.' 46, 'E' 69, 'e' 101); isDigit(c) holds exactly for the chars
\* '0'..'9', isNumerical(c) exactly for those and '-', '+', '.', 'e', 'E',
\* and the chars that are numerical and no digit are the ones that send
\* read<T> to the full parser
C28_ChIsAsciiAndClassifies ==
    /\ last.op = "Ch" =>
          /\ last.ret \in 0..127
          /\ last.arg = "NUL" => last.ret = 0
          /\ last.arg = "NUM_0" => last.ret = 48
          /\ last.arg = "NUM_9" => last.ret = 57
          /\ last.arg = "UP_A" => last.ret = 65
          /\ last.arg = "UP_Z" => last.ret = 90
          /\ last.arg = "A" => last.ret = 97
          /\ last.arg = "Z" => last.ret = 122
          /\ last.arg = "DEL" => last.ret = 127
          /\ last.arg = "PLUS" => last.ret = 43
          /\ last.arg = "MINUS" => last.ret = 45
          /\ last.arg = "DOT" => last.ret = 46
          /\ last.arg = "UP_E" => last.ret = 69
          /\ last.arg = "E" => last.ret = 101
    /\ last.op = "isDigit" => (last.ret <=> last.arg \in 48..57)
    /\ last.op = "isNumerical" =>
          (last.ret <=> last.arg \in (48..57) \cup {45, 43, 46, 101, 69})
    /\ last.op \in ReadOps =>
          (last.ret.path = "full" <=>
              \E i \in DOMAIN last.arg :
                  isNumerical(last.arg[i]) /\ ~isDigit(last.arg[i]))

C28_Witness ==
    /\ last.op = "isNumerical"
    /\ last.arg = 69
    /\ last.ret = TRUE
    /\ ~isDigit(last.arg)

\* C30 as stated: BASE_BINARY is 2, BASE_OCTAL 8, BASE_DECIMAL 10 and
\* BASE_HEXADECIMAL 16, and no two of the four are equal
C30_BaseConstantsAreRadixes ==
    last.op = "base" =>
        /\ last.arg = "BASE_BINARY" => last.ret = 2
        /\ last.arg = "BASE_OCTAL" => last.ret = 8
        /\ last.arg = "BASE_DECIMAL" => last.ret = 10
        /\ last.arg = "BASE_HEXADECIMAL" => last.ret = 16
        /\ \A other \in BaseNames \ {last.arg} : Base(other) /= last.ret

(* -------------------- claims on forEachPair, forEachAdj ---------------- *)
Before(p, q) == p[1] < q[1] \/ (p[1] = q[1] /\ p[2] < q[2])

Visited(calls) == {calls[k] : k \in DOMAIN calls}

\* C29: forEachPair<N> invokes func once for each pair (I, J) with
\* 0 <= I < J < N and for no other, N(N-1)/2 times, in ascending
\* lexicographic order; forEachAdj<N> invokes it for (I, I + 1),
\* 0 <= I < N - 1, in ascending order and not at all when N < 2; each pair
\* forEachAdj<N> visits, forEachPair<N> visits
C29_PairsAndAdjacentPairs ==
    /\ last.op = "forEachPair" =>
          LET n == last.arg
              calls == last.ret
          IN  /\ Visited(calls) =
                     {p \in (0..(n - 1)) \X (0..(n - 1)) : p[1] < p[2]}
              /\ 2 * Len(calls) = n * (n - 1)
              /\ \A k \in 1..(Len(calls) - 1) : Before(calls[k], calls[k + 1])
    /\ last.op = "forEachAdj" =>
          LET n == last.arg
              calls == last.ret
          IN  /\ calls = [k \in 1..(n - 1) |-> <<k - 1, k>>]
              /\ n < 2 => calls = <<>>
              /\ Visited(calls) \subseteq Visited(forEachPair(n))

C29_Witness ==
    /\ last.op = "forEachPair"
    /\ last.arg = 4
    /\ last.ret = << <<0, 1>>, <<0, 2>>, <<0, 3>>, <<1, 2>>, <<1, 3>>, <<2, 3>> >>
    /\ forEachAdj(4) = << <<0, 1>>, <<1, 2>>, <<2, 3>> >>

====
